---- MODULE Spec2Model ----
(***************************************************************************)
(* Model of server/modelpath.go: parsing of model names into a ModelPath,  *)
(* its validation and formatting, and the resolution of manifest and blob  *)
(* paths under the models directory.                                       *)
(*                                                                         *)
(* Go strings are modelled as sequences of one-character strings, so that  *)
(* Cut, Split, ReplaceAll, the digest pattern and filepath.Join are        *)
(* computed character by character, as the code computes them.             *)
(***************************************************************************)
EXTENDS Integers, Sequences, FiniteSets, TLC

VARIABLES
    PathSeparator,  \* os.PathSeparator of the build: "/" or "\\"
    env,            \* process environment: OLLAMA_MODELS and the home directory
    name,           \* the string handed to ParseModelPath
    ntok,           \* number of tokens the caller has put into name
    pc,             \* position of the single-threaded caller
    mp,             \* the ModelPath returned by ParseModelPath(name)
    out,            \* value returned by the last method called on mp
    mp2,            \* the ModelPath parsed back from a short tag name
    fs0,            \* the filesystem before any call
    fs,             \* the filesystem: path -> "none" | "dir" | "file"
    procs           \* the concurrent callers of the path functions

vars == <<PathSeparator, env, name, ntok, pc, mp, out, mp2, fs0, fs, procs>>

----------------------------------------------------------------------------
(* Bounds *)

MaxTokens == 4

----------------------------------------------------------------------------
(* Program constants *)

DefaultRegistry ==
    <<"r","e","g","i","s","t","r","y",".","o","l","l","a","m","a",".","a","i">>
DefaultNamespace == <<"l","i","b","r","a","r","y">>
DefaultTag == <<"l","a","t","e","s","t">>
DefaultProtocolScheme == <<"h","t","t","p","s">>

HomeEnv == [models |-> [exists |-> FALSE, val |-> <<>>],
            home   |-> [ok |-> TRUE, dir |-> <<"/", "h">>]]

----------------------------------------------------------------------------
(* Evaluation: an operator whose argument is used many times binds it once, *)
(* as the element of a singleton, so that the argument is computed once.    *)

Only(S) == CHOOSE v \in S : TRUE

----------------------------------------------------------------------------
(* package strings *)

\* index of the first occurrence of sub in str, 0 if there is none
IndexOf(str, sub) ==
    Only({ LET n  == Len(sub)
               at == {i \in 1..(Len(s) - n + 1) : SubSeq(s, i, i + n - 1) = sub}
           IN  IF at = {} THEN 0 ELSE CHOOSE i \in at : \A j \in at : i <= j
           : s \in {str} })

Cut(str, sub) ==
    Only({ IF i = 0
           THEN [before |-> s, after |-> <<>>, found |-> FALSE]
           ELSE [before |-> SubSeq(s, 1, i - 1),
                 after  |-> SubSeq(s, i + Len(sub), Len(s)),
                 found  |-> TRUE]
           : <<s, i>> \in {<<str, IndexOf(str, sub)>>} })

ReplaceAll(str, old, new) ==
    Only({ [i \in 1..Len(s) |-> IF s[i] = old THEN new ELSE s[i]]
           : s \in {str} })

Contains(str, ch) == \E s \in {str} : \E i \in 1..Len(s) : s[i] = ch

RECURSIVE Split(_, _)
Split(str, ch) ==
    Only({ IF c.found THEN <<c.before>> \o Split(c.after, ch) ELSE <<c.before>>
           : c \in {Cut(str, <<ch>>)} })

----------------------------------------------------------------------------
(* ModelPath *)

ParseParts_swapped(m, parts) ==
    IF Len(parts) = 3
    THEN [m EXCEPT !.Registry = parts[2], !.Namespace = parts[1],
                   !.Repository = parts[3]]
    ELSE IF Len(parts) = 2
    THEN [m EXCEPT !.Namespace = parts[1], !.Repository = parts[2]]
    ELSE IF Len(parts) = 1
    THEN [m EXCEPT !.Repository = parts[1]]
    ELSE m

ParseParts(m, parts) ==
    IF Len(parts) = 3
    THEN [m EXCEPT !.Registry = parts[1], !.Namespace = parts[2],
                   !.Repository = parts[3]]
    ELSE IF Len(parts) = 2
    THEN [m EXCEPT !.Namespace = parts[1], !.Repository = parts[2]]
    ELSE IF Len(parts) = 1
    THEN [m EXCEPT !.Repository = parts[1]]
    ELSE m

ParseModelPath(s) ==
    LET m0 == [ProtocolScheme |-> DefaultProtocolScheme,
               Registry       |-> DefaultRegistry,
               Namespace      |-> DefaultNamespace,
               Repository     |-> <<>>,
               Tag            |-> DefaultTag]
    IN  Only({
          LET m1 == IF c.found THEN [m0 EXCEPT !.ProtocolScheme = c.before]
                    ELSE m0
              n1 == IF c.found THEN c.after ELSE c.before
              n2 == ReplaceAll(n1, PathSeparator, "/")
          IN  Only({
                Only({ IF rt.found
                       THEN [m2 EXCEPT !.Repository = rt.before,
                                       !.Tag = rt.after]
                       ELSE m2
                       : rt \in {Cut(m2.Repository, <<":">>)} })
                : m2 \in {ParseParts(m1, Split(n2, "/"))} })
          : c \in {Cut(s, <<":", "/", "/">>)} })

Validate_tagfirst(m) ==
    IF Contains(m.Tag, ":") THEN "colon in tag"
    ELSE IF m.Repository = <<>> THEN "repository required"
    ELSE "nil"

Validate(m) ==
    IF m.Repository = <<>> THEN "repository required"
    ELSE IF Contains(m.Tag, ":") THEN "colon in tag"
    ELSE "nil"

GetShortTagname_notag(m) ==
    IF m.Registry = DefaultRegistry
    THEN IF m.Namespace = DefaultNamespace
         THEN m.Repository
         ELSE m.Namespace \o <<"/">> \o m.Repository \o <<":">> \o m.Tag
    ELSE m.Registry \o <<"/">> \o m.Namespace \o <<"/">> \o m.Repository
         \o <<":">> \o m.Tag

GetShortTagname_independent(m) ==
    (IF m.Registry = DefaultRegistry THEN <<>> ELSE m.Registry \o <<"/">>)
    \o (IF m.Namespace = DefaultNamespace THEN <<>> ELSE m.Namespace \o <<"/">>)
    \o m.Repository \o <<":">> \o m.Tag

GetShortTagname(m) ==
    IF m.Registry = DefaultRegistry
    THEN IF m.Namespace = DefaultNamespace
         THEN m.Repository \o <<":">> \o m.Tag
         ELSE m.Namespace \o <<"/">> \o m.Repository \o <<":">> \o m.Tag
    ELSE m.Registry \o <<"/">> \o m.Namespace \o <<"/">> \o m.Repository
         \o <<":">> \o m.Tag

----------------------------------------------------------------------------
(* package path/filepath, for the separator of the build *)

IsPathSeparator(c) == c = "/" \/ c = PathSeparator

RECURSIVE SplitPath(_)
SplitPath(str) ==
    Only({ LET at == {i \in 1..Len(s) : IsPathSeparator(s[i])}
           IN  IF at = {} THEN <<s>>
               ELSE LET i == CHOOSE i \in at : \A j \in at : i <= j
                    IN  <<SubSeq(s, 1, i - 1)>>
                        \o SplitPath(SubSeq(s, i + 1, Len(s)))
           : s \in {str} })

RECURSIVE StringsJoin(_, _)
StringsJoin(elems, sepstr) ==
    Only({ IF e = <<>> THEN <<>>
           ELSE IF Len(e) = 1 THEN e[1]
           ELSE e[1] \o sepstr \o StringsJoin(Tail(e), sepstr)
           : e \in {elems} })

DotDot == <<".", ".">>

\* the elements Clean keeps: no empty or "." element, ".." taken with the
\* element before it, or dropped at the root
RECURSIVE CleanParts(_, _, _)
CleanParts(elems, kept, rooted) ==
    Only({ IF parts = <<>> THEN acc
           ELSE LET h == Head(parts)
                    next ==
                        IF h = <<>> \/ h = <<".">> THEN acc
                        ELSE IF h = DotDot
                        THEN IF acc # <<>> /\ acc[Len(acc)] # DotDot
                             THEN SubSeq(acc, 1, Len(acc) - 1)
                             ELSE IF rooted THEN acc ELSE Append(acc, h)
                        ELSE Append(acc, h)
                IN  CleanParts(Tail(parts), next, rooted)
           : <<parts, acc>> \in {<<elems, kept>>} })

Clean(path) ==
    Only({ IF p = <<>> THEN <<".">>
           ELSE Only({ IF parts = <<>>
                       THEN IF IsPathSeparator(p[1]) THEN <<PathSeparator>>
                            ELSE <<".">>
                       ELSE (IF IsPathSeparator(p[1]) THEN <<PathSeparator>>
                             ELSE <<>>)
                            \o StringsJoin(parts, <<PathSeparator>>)
                       : parts \in {CleanParts(SplitPath(p), <<>>,
                                               IsPathSeparator(p[1]))} })
           : p \in {path} })

FilepathJoin(elems) ==
    Only({ LET ne == {i \in 1..Len(e) : e[i] # <<>>}
           IN  IF ne = {} THEN <<>>
               ELSE LET i == CHOOSE i \in ne : \A j \in ne : i <= j
                    IN  Clean(StringsJoin(SubSeq(e, i, Len(e)),
                                          <<PathSeparator>>))
           : e \in {elems} })

----------------------------------------------------------------------------
(* The models directory and the manifest path of a ModelPath *)

Manifests == <<"m","a","n","i","f","e","s","t","s">>
Blobs == <<"b","l","o","b","s">>
DotOllama == <<".","o","l","l","a","m","a">>
Models == <<"m","o","d","e","l","s">>

modelsDir ==
    IF env.models.exists
    THEN [path |-> env.models.val, err |-> "nil"]
    ELSE IF ~env.home.ok
    THEN [path |-> <<>>, err |-> "home"]
    ELSE [path |-> FilepathJoin(<<env.home.dir, DotOllama, Models>>),
          err |-> "nil"]

\* What a path function does before it returns: the directory it hands to
\* os.MkdirAll (mkdir), and the values it returns when that call succeeds.
Fails(e) == [mkdir |-> FALSE, dir |-> <<>>, path |-> <<>>, err |-> e]

MpGetManifestPath_creating(m) ==
    Only({ IF d.err # "nil" THEN Fails(d.err)
           ELSE [mkdir |-> TRUE,
                 dir   |-> FilepathJoin(<<d.path, Manifests>>),
                 path  |-> FilepathJoin(<<d.path, Manifests, m.Registry,
                                          m.Namespace, m.Repository, m.Tag>>),
                 err   |-> "nil"]
           : d \in {modelsDir} })

MpGetManifestPath(m) ==
    Only({ IF d.err # "nil" THEN Fails(d.err)
           ELSE [mkdir |-> FALSE,
                 dir   |-> <<>>,
                 path  |-> FilepathJoin(<<d.path, Manifests, m.Registry,
                                          m.Namespace, m.Repository, m.Tag>>),
                 err   |-> "nil"]
           : d \in {modelsDir} })

GetManifestPath ==
    Only({ IF d.err # "nil" THEN Fails(d.err)
           ELSE Only({ [mkdir |-> TRUE, dir |-> path, path |-> path,
                        err |-> "nil"]
                       : path \in {FilepathJoin(<<d.path, Manifests>>)} })
           : d \in {modelsDir} })

HexLen == 64
Sha256 == <<"s","h","a","2","5","6">>
HexDigits ==
    {"0","1","2","3","4","5","6","7","8","9",
     "a","b","c","d","e","f","A","B","C","D","E","F"}

blobDigestRegEx_unanchored(digest) ==
    \E d \in {digest} :
        /\ Len(d) >= Len(Sha256) + 1 + HexLen
        /\ SubSeq(d, 1, Len(Sha256)) = Sha256
        /\ d[Len(Sha256) + 1] \in {":", "-"}
        /\ \A i \in (Len(Sha256) + 2)..(Len(Sha256) + 1 + HexLen) :
               d[i] \in HexDigits

blobDigestRegEx(digest) ==
    \E d \in {digest} :
        /\ Len(d) = Len(Sha256) + 1 + HexLen
        /\ SubSeq(d, 1, Len(Sha256)) = Sha256
        /\ d[Len(Sha256) + 1] \in {":", "-"}
        /\ \A i \in (Len(Sha256) + 2)..Len(d) : d[i] \in HexDigits

GetBlobsPath_mkdirfirst(digest) ==
    Only({ IF d.err # "nil" THEN Fails(d.err)
           ELSE Only({
                  IF digest # <<>>
                  THEN IF ~blobDigestRegEx(digest)
                       THEN [mkdir |-> TRUE, dir |-> dir, path |-> <<>>,
                             err |-> "invalid digest format"]
                       ELSE [mkdir |-> TRUE, dir |-> dir,
                             path |-> FilepathJoin(
                                 <<dir, ReplaceAll(digest, ":", "-")>>),
                             err |-> "nil"]
                  ELSE [mkdir |-> TRUE, dir |-> dir, path |-> dir,
                        err |-> "nil"]
                  : dir \in {FilepathJoin(<<d.path, Blobs>>)} })
           : d \in {modelsDir} })

GetBlobsPath_rawdigest(digest) ==
    Only({ IF d.err # "nil" THEN Fails(d.err)
           ELSE Only({
                  IF digest # <<>>
                  THEN IF ~blobDigestRegEx(digest)
                       THEN Fails("invalid digest format")
                       ELSE [mkdir |-> TRUE, dir |-> dir,
                             path |-> FilepathJoin(<<dir, digest>>),
                             err |-> "nil"]
                  ELSE [mkdir |-> TRUE, dir |-> dir, path |-> dir,
                        err |-> "nil"]
                  : dir \in {FilepathJoin(<<d.path, Blobs>>)} })
           : d \in {modelsDir} })

GetBlobsPath(digest) ==
    Only({ IF d.err # "nil" THEN Fails(d.err)
           ELSE Only({
                  IF digest # <<>>
                  THEN IF ~blobDigestRegEx(digest)
                       THEN Fails("invalid digest format")
                       ELSE [mkdir |-> TRUE, dir |-> dir,
                             path |-> FilepathJoin(
                                 <<dir, ReplaceAll(digest, ":", "-")>>),
                             err |-> "nil"]
                  ELSE [mkdir |-> TRUE, dir |-> dir, path |-> dir,
                        err |-> "nil"]
                  : dir \in {FilepathJoin(<<d.path, Blobs>>)} })
           : d \in {modelsDir} })

----------------------------------------------------------------------------
(* The filesystem, and os.MkdirAll as the sequence of system calls it makes *)

\* parent := path[:i+1] of os.MkdirAll: path without its last element
ParentOf(path) ==
    Only({ LET names == {i \in 1..Len(p) : ~IsPathSeparator(p[i])}
               last  == IF names = {} THEN 0
                        ELSE CHOOSE i \in names : \A j \in names : j <= i
               seps  == {i \in 1..last : IsPathSeparator(p[i])}
               cut   == IF seps = {} THEN 0
                        ELSE CHOOSE i \in seps : \A j \in seps : j <= i
           IN  SubSeq(p, 1, cut)
           : p \in {path} })

\* the root directory and the working directory always exist
Kind(f, path) ==
    Only({ IF c = <<PathSeparator>> \/ c = <<".">> THEN "dir"
           ELSE IF c \in DOMAIN f THEN f[c]
           ELSE "none"
           : c \in {Clean(path)} })

EndsInSeparator(path) ==
    \E p \in {path} : p # <<>> /\ IsPathSeparator(p[Len(p)])

\* os.Stat(path): a name with a trailing separator resolves only to a directory
Stat(f, path) ==
    Only({ IF k = "file" /\ EndsInSeparator(path) THEN "none" ELSE k
           : k \in {Kind(f, path)} })

\* os.Mkdir(path) succeeds when the parent is a directory and path is free
MkdirOK(f, path) ==
    /\ Kind(f, ParentOf(path)) = "dir"
    /\ Kind(f, path) = "none"

\* after a failed os.Mkdir, os.MkdirAll succeeds if path is a directory
MkdirFailed_strict(f, path) == FALSE

MkdirFailed(f, path) == Stat(f, path) = "dir"

RECURSIVE Ancestors(_)
Ancestors(path) ==
    Only({ IF c \in {<<PathSeparator>>, <<".">>} THEN {}
           ELSE {c} \cup Ancestors(ParentOf(c))
           : c \in {Clean(path)} })

Universe ==
    Only({ IF d.err # "nil" THEN {}
           ELSE Ancestors(FilepathJoin(<<d.path, Blobs>>))
                \cup Ancestors(FilepathJoin(<<d.path, Manifests>>))
           : d \in {modelsDir} })

Filesystems ==
    {f \in [Universe -> {"none", "dir", "file"}] :
        \A q \in Universe : f[q] # "none" => Kind(f, ParentOf(q)) = "dir"}

\* os.MkdirAll run to completion by one caller alone
RECURSIVE MkdirAll(_, _)
MkdirAll(f, path) ==
    Only({ IF k = "dir" THEN [fs |-> f, err |-> "nil"]
           ELSE IF k = "file" THEN [fs |-> f, err |-> "mkdir"]
           ELSE Only({ IF up.err # "nil" THEN up
                       ELSE IF MkdirOK(up.fs, p)
                       THEN [fs  |-> [up.fs EXCEPT ![Clean(p)] = "dir"],
                             err |-> "nil"]
                       ELSE IF MkdirFailed(up.fs, p)
                       THEN [fs |-> up.fs, err |-> "nil"]
                       ELSE [fs |-> up.fs, err |-> "mkdir"]
                       : up \in {IF ParentOf(p) # <<>>
                                 THEN MkdirAll(f, ParentOf(p))
                                 ELSE [fs |-> f, err |-> "nil"]} })
           : <<p, k>> \in {<<path, Stat(f, path)>>} })

----------------------------------------------------------------------------
(* Single-threaded caller: builds a name, parses it, calls one method *)

NoPath == [ProtocolScheme |-> <<>>, Registry |-> <<>>, Namespace |-> <<>>,
           Repository |-> <<>>, Tag |-> <<>>]
NoOut == [op |-> "none", val |-> <<>>, err |-> "nil"]

Tokens ==
    { <<"a">>, <<"/">>, <<":">>, <<"\\">>, <<".", ".">>, <<":", "/", "/">>,
      DefaultNamespace, DefaultRegistry }

InitParse ==
    /\ PathSeparator \in {"/", "\\"}
    /\ env = HomeEnv
    /\ name = <<>>
    /\ ntok = 0
    /\ pc = "input"
    /\ mp = NoPath
    /\ out = NoOut
    /\ mp2 = NoPath
    /\ fs0 = <<>>
    /\ fs = <<>>
    /\ procs = <<>>

Type ==
    /\ pc = "input"
    /\ ntok < MaxTokens
    /\ \E t \in Tokens : name' = name \o t
    /\ ntok' = ntok + 1
    /\ UNCHANGED <<PathSeparator, env, pc, mp, out, mp2, fs0, fs, procs>>

CallParseModelPath ==
    /\ pc = "input"
    /\ mp' = ParseModelPath(name)
    /\ pc' = "parsed"
    /\ UNCHANGED <<PathSeparator, env, name, ntok, out, mp2, fs0, fs, procs>>

CallValidate ==
    /\ pc = "parsed"
    /\ out' = [op |-> "Validate", val |-> <<>>, err |-> Validate(mp)]
    /\ pc' = "called"
    /\ UNCHANGED <<PathSeparator, env, name, ntok, mp, mp2, fs0, fs, procs>>

CallGetShortTagname ==
    /\ pc = "parsed"
    /\ out' = [op |-> "GetShortTagname", val |-> GetShortTagname(mp),
               err |-> "nil"]
    /\ pc' = "called"
    /\ UNCHANGED <<PathSeparator, env, name, ntok, mp, mp2, fs0, fs, procs>>

CallParseShortTagname ==
    /\ pc = "called"
    /\ out.op = "GetShortTagname"
    /\ mp2' = ParseModelPath(out.val)
    /\ pc' = "reparsed"
    /\ UNCHANGED <<PathSeparator, env, name, ntok, mp, out, fs0, fs, procs>>

CallGetManifestPath ==
    /\ pc = "parsed"
    /\ LET r == MpGetManifestPath(mp)
       IN  out' = [op |-> "GetManifestPath", val |-> r.path, err |-> r.err]
    /\ pc' = "called"
    /\ UNCHANGED <<PathSeparator, env, name, ntok, mp, mp2, fs0, fs, procs>>

NextParse ==
    \/ Type
    \/ CallParseModelPath
    \/ CallValidate
    \/ CallGetShortTagname
    \/ CallParseShortTagname
    \/ CallGetManifestPath

SpecParse == InitParse /\ [][NextParse]_vars

----------------------------------------------------------------------------
(* Callers of the path functions.  A call runs up to its os.MkdirAll in one *)
(* step (it reads only the environment and its arguments); os.MkdirAll then *)
(* proceeds one system call at a time, so that callers interleave there.    *)

ParseValidateFormat(s) ==
    LET m == ParseModelPath(s)
    IN  [mkdir |-> FALSE, dir |-> <<>>, path |-> GetShortTagname(m),
         err |-> Validate(m)]

PlanOf(op) ==
    CASE op.kind = "GetBlobsPath" -> GetBlobsPath(op.arg)
      [] op.kind = "GetManifestPath" -> GetManifestPath
      [] op.kind = "ModelPath.GetManifestPath" ->
             MpGetManifestPath(ParseModelPath(op.arg))
      [] op.kind = "GetShortTagname" -> ParseValidateFormat(op.arg)

NoOp == [kind |-> "none", arg |-> <<>>]
NoRet == [path |-> <<>>, err |-> "nil"]

Idle ==
    [pc |-> "idle", op |-> NoOp, cur |-> <<>>, stack |-> <<>>,
     ret |-> NoRet, made |-> {}, after |-> {}]

\* the caller whose os.MkdirAll (or a recursive call of it) returns
Returned(pr, ok) ==
    IF ~ok
    THEN [pr EXCEPT !.pc = "done", !.cur = <<>>, !.stack = <<>>,
                    !.ret = [path |-> <<>>, err |-> "mkdir"]]
    ELSE IF pr.stack = <<>>
    THEN [pr EXCEPT !.pc = "done", !.cur = <<>>,
                    !.ret = [path |-> PlanOf(pr.op).path,
                             err  |-> PlanOf(pr.op).err]]
    ELSE [pr EXCEPT !.pc = "mkdir", !.cur = Head(pr.stack),
                    !.stack = Tail(pr.stack)]

Call(p, op) ==
    /\ procs[p].pc = "idle"
    /\ LET plan == PlanOf(op)
           me   == [procs[p] EXCEPT
                       !.op = op,
                       !.after = {q \in DOMAIN procs :
                                     /\ procs[q].pc = "done"
                                     /\ procs[q].op = op
                                     /\ procs[q].ret.err = "nil"}]
       IN  procs' = [procs EXCEPT ![p] =
               IF plan.mkdir
               THEN [me EXCEPT !.pc = "stat", !.cur = plan.dir]
               ELSE [me EXCEPT !.pc = "done",
                               !.ret = [path |-> plan.path, err |-> plan.err]]]
    /\ UNCHANGED <<PathSeparator, env, name, ntok, pc, mp, out, mp2, fs0, fs>>

StatStep(p) ==
    /\ procs[p].pc = "stat"
    /\ LET pr == procs[p]
           k  == Stat(fs, pr.cur)
       IN  procs' = [procs EXCEPT ![p] =
               IF k = "dir" THEN Returned(pr, TRUE)
               ELSE IF k = "file" THEN Returned(pr, FALSE)
               ELSE IF ParentOf(pr.cur) # <<>>
               THEN [pr EXCEPT !.stack = <<pr.cur>> \o pr.stack,
                               !.cur = ParentOf(pr.cur)]
               ELSE [pr EXCEPT !.pc = "mkdir"]]
    /\ UNCHANGED <<PathSeparator, env, name, ntok, pc, mp, out, mp2, fs0, fs>>

MkdirStep(p) ==
    /\ procs[p].pc = "mkdir"
    /\ LET pr == procs[p]
       IN  IF MkdirOK(fs, pr.cur)
           THEN /\ fs' = [fs EXCEPT ![Clean(pr.cur)] = "dir"]
                /\ procs' = [procs EXCEPT ![p] =
                       Returned([pr EXCEPT !.made = @ \cup {Clean(pr.cur)}],
                                TRUE)]
           ELSE /\ fs' = fs
                /\ procs' = [procs EXCEPT ![p] = [pr EXCEPT !.pc = "lstat"]]
    /\ UNCHANGED <<PathSeparator, env, name, ntok, pc, mp, out, mp2, fs0>>

LstatStep(p) ==
    /\ procs[p].pc = "lstat"
    /\ procs' = [procs EXCEPT ![p] =
           Returned(procs[p], MkdirFailed(fs, procs[p].cur))]
    /\ UNCHANGED <<PathSeparator, env, name, ntok, pc, mp, out, mp2, fs0, fs>>

----------------------------------------------------------------------------
(* Environments, digests and names the callers are run on *)

NoHomeEnv == [models |-> [exists |-> FALSE, val |-> <<>>],
              home   |-> [ok |-> FALSE, dir |-> <<>>]]
ModelsEnv(dir) == [models |-> [exists |-> TRUE, val |-> dir],
                   home   |-> [ok |-> TRUE, dir |-> <<"/", "h">>]]

Envs ==
    {HomeEnv, NoHomeEnv, ModelsEnv(<<"/", "m">>), ModelsEnv(<<"m">>),
     ModelsEnv(<<>>)}

\* n characters c, with x at position k (k = 0: nowhere)
Body(n, c, k, x) == [i \in 1..n |-> IF i = k THEN x ELSE c]

GoodDigests ==
    {Sha256 \o <<s>> \o Body(HexLen, c, k, x) :
        s \in {":", "-"}, c \in {"a", "F", "9"},
        k \in {0, 1, HexLen}, x \in {"0", "f", "A"}}

BadDigests ==
    {pre \o <<s>> \o Body(HexLen, "a", 0, "a") :
        pre \in {<<>>, <<"s","h","a","2","5">>, <<"S","H","A","2","5","6">>,
                 <<"s","h","a","5","1","2">>, <<"x">> \o Sha256},
        s \in {":", "-"}}
    \cup {Sha256 \o s \o Body(HexLen, "a", 0, "a") :
        s \in {<<>>, <<"_">>, <<"=">>, <<":", ":">>, <<":", "-">>}}
    \cup {Sha256 \o <<s>> \o Body(n, "a", 0, "a") :
        s \in {":", "-"}, n \in {0, 1, HexLen - 1, HexLen + 1}}
    \cup {Sha256 \o <<s>> \o Body(HexLen, "a", k, x) :
        s \in {":", "-"}, k \in {1, HexLen},
        x \in {"g", "G", ":", "-", "/", ".", "\n"}}
    \cup {Sha256 \o <<s>> \o Body(HexLen, "a", 0, "a") \o <<"\n">> :
        s \in {":", "-"}}

Digests == {<<>>} \cup GoodDigests \cup BadDigests

Names ==
    { <<"a">>, <<"a", "/", "a", "/", "a", ":", "a">>,
      <<"/", ".", ".", "/", "a">>, <<"a", "/", "/", "a">>,
      <<"/", "a", "/", "a">>, <<>> }

AllOps ==
    {[kind |-> "GetBlobsPath", arg |-> d] : d \in Digests}
    \cup {[kind |-> "GetManifestPath", arg |-> <<>>]}
    \cup {[kind |-> "ModelPath.GetManifestPath", arg |-> n] : n \in Names}

----------------------------------------------------------------------------
(* One caller, one call, from every environment and filesystem *)

InitPaths ==
    /\ PathSeparator \in {"/", "\\"}
    /\ env \in Envs
    /\ name = <<>>
    /\ ntok = 0
    /\ pc = "paths"
    /\ mp = NoPath
    /\ out = NoOut
    /\ mp2 = NoPath
    /\ fs0 \in Filesystems
    /\ fs = fs0
    /\ procs = [p \in {1} |-> Idle]

CallAny == \E p \in DOMAIN procs : \E op \in AllOps : Call(p, op)
DoStat == \E p \in DOMAIN procs : StatStep(p)
DoMkdir == \E p \in DOMAIN procs : MkdirStep(p)
DoLstat == \E p \in DOMAIN procs : LstatStep(p)

NextPaths == CallAny \/ DoStat \/ DoMkdir \/ DoLstat

SpecPaths == InitPaths /\ [][NextPaths]_vars

----------------------------------------------------------------------------
(* Concurrent callers on one models directory *)

NumProcs == 2

AGoodDigest == Sha256 \o <<":">> \o Body(HexLen, "a", 1, "F")
ABadDigest == Sha256 \o <<":">> \o Body(HexLen, "a", 1, "g")

FewOps ==
    {[kind |-> "GetBlobsPath", arg |-> d] :
        d \in {<<>>, AGoodDigest, ABadDigest}}
    \cup {[kind |-> "GetManifestPath", arg |-> <<>>]}
    \cup {[kind |-> "GetShortTagname", arg |-> <<"a">>]}

InitConc ==
    /\ PathSeparator = "/"
    /\ env = ModelsEnv(<<"/", "m">>)
    /\ name = <<>>
    /\ ntok = 0
    /\ pc = "paths"
    /\ mp = NoPath
    /\ out = NoOut
    /\ mp2 = NoPath
    /\ fs0 \in Filesystems
    /\ fs = fs0
    /\ procs = [p \in 1..NumProcs |-> Idle]

CallSome == \E p \in DOMAIN procs : \E op \in FewOps : Call(p, op)

NextConc == CallSome \/ DoStat \/ DoMkdir \/ DoLstat

SpecConc == InitConc /\ [][NextConc]_vars

----------------------------------------------------------------------------
(* Vocabulary of the claims about parsing, stated on the characters of    *)
(* name and not through Cut or Split.                                     *)

SchemeAt(s, i) ==
    i + 2 <= Len(s) /\ s[i] = ":" /\ s[i + 1] = "/" /\ s[i + 2] = "/"

HasScheme(s) == \E i \in 1..Len(s) : SchemeAt(s, i)

FirstScheme(s) ==
    CHOOSE i \in 1..Len(s) :
        SchemeAt(s, i) /\ \A j \in 1..(i - 1) : ~SchemeAt(s, j)

\* name without its optional "scheme://" prefix
Remainder(s) ==
    IF HasScheme(s) THEN SubSeq(s, FirstScheme(s) + 3, Len(s)) ELSE s

\* the remainder with the separator of the build rewritten to "/"
Normalized(s) ==
    [i \in 1..Len(s) |-> IF s[i] = PathSeparator THEN "/" ELSE s[i]]

SlashesOf(s) == {i \in 1..Len(s) : s[i] = "/"}

NumSegments(s) == Cardinality(SlashesOf(s)) + 1

\* position of the k-th "/" of s; 0 before the first, Len(s) + 1 after the last
SlashNo(s, k) ==
    IF k = 0 THEN 0
    ELSE IF k > Cardinality(SlashesOf(s)) THEN Len(s) + 1
    ELSE CHOOSE i \in SlashesOf(s) :
             Cardinality({j \in SlashesOf(s) : j < i}) = k - 1

Segment(s, k) == SubSeq(s, SlashNo(s, k - 1) + 1, SlashNo(s, k) - 1)

\* seg is "repo:tag" cut at its first colon, or "repo" with the default tag
RepositoryAndTag(seg, m) ==
    \/ /\ seg = m.Repository \o <<":">> \o m.Tag
       /\ \A i \in 1..Len(m.Repository) : m.Repository[i] # ":"
    \/ /\ \A i \in 1..Len(seg) : seg[i] # ":"
       /\ m.Repository = seg
       /\ m.Tag = DefaultTag

SegmentsGive(rest, m) ==
    LET n == NumSegments(rest)
    IN  /\ n = 3 => /\ m.Registry = Segment(rest, 1)
                    /\ m.Namespace = Segment(rest, 2)
                    /\ RepositoryAndTag(Segment(rest, 3), m)
        /\ n = 2 => /\ m.Registry = DefaultRegistry
                    /\ m.Namespace = Segment(rest, 1)
                    /\ RepositoryAndTag(Segment(rest, 2), m)
        /\ n = 1 => /\ m.Registry = DefaultRegistry
                    /\ m.Namespace = DefaultNamespace
                    /\ RepositoryAndTag(Segment(rest, 1), m)
        /\ n \notin {1, 2, 3} => /\ m.Registry = DefaultRegistry
                                 /\ m.Namespace = DefaultNamespace
                                 /\ m.Repository = <<>>
                                 /\ m.Tag = DefaultTag

Parsed == pc # "input"

\* C1, as stated: the segments are those of the remainder of name split on
\* "/" alone: three give registry, namespace, repository; two give namespace,
\* repository; one gives repository; any other count leaves the repository
\* empty; the repository segment is cut at its first colon into repository
\* and tag.
C1_SegmentsOfRawRemainder ==
    Parsed => SegmentsGive(Remainder(name), mp)

\* C1, amended: the same, for the segments of the remainder of name after the
\* path separator of the build has been rewritten to "/".
C1_SegmentsOfNormalizedRemainder ==
    Parsed => SegmentsGive(Normalized(Remainder(name)), mp)

C1_Witness ==
    /\ pc = "parsed"
    /\ PathSeparator = "\\"
    /\ \E i \in 1..Len(name) : name[i] = "\\"
    /\ NumSegments(Normalized(Remainder(name))) = 3
    /\ mp.Tag # DefaultTag
    /\ mp.Repository # <<>>

HasColon(s) == \E i \in 1..Len(s) : s[i] = ":"

\* C2: Validate fails exactly when the repository is empty or the tag holds a
\* colon, whatever scheme, registry and namespace are; when both hold the
\* failure reported is the empty repository.
C2_ValidateRules ==
    (pc = "called" /\ out.op = "Validate") =>
        /\ out.err # "nil" <=> (Len(mp.Repository) = 0 \/ HasColon(mp.Tag))
        /\ Len(mp.Repository) = 0 => out.err = "repository required"
        /\ (Len(mp.Repository) # 0 /\ HasColon(mp.Tag))
               => out.err = "colon in tag"

C2_Witness ==
    /\ pc = "called" /\ out.op = "Validate"
    /\ Len(mp.Repository) = 0 /\ HasColon(mp.Tag)
    /\ out.err = "repository required"

DefaultsUsed == mp.Registry = DefaultRegistry /\ mp.Namespace = DefaultNamespace

\* C3, as stated: when the parsed address has the default registry and
\* namespace, parsing its short tag name gives the same address, scheme
\* included.
C3_ReparseSameAddress ==
    (pc = "reparsed" /\ DefaultsUsed) => mp2 = mp

\* C3, amended: parsing the short tag name gives the same registry, namespace,
\* repository and tag, and the default scheme in place of the scheme of name.
C3_ReparseSameButScheme ==
    (pc = "reparsed" /\ DefaultsUsed) =>
        mp2 = [mp EXCEPT !.ProtocolScheme = DefaultProtocolScheme]

C3_Witness ==
    /\ pc = "reparsed" /\ DefaultsUsed
    /\ mp.ProtocolScheme # DefaultProtocolScheme
    /\ mp.Repository # <<>>
    /\ mp.Tag # DefaultTag
    /\ mp2.Tag = mp.Tag

\* C4: the short tag name is repository:tag when registry and namespace are the
\* defaults, namespace/repository:tag when only the registry is, and
\* registry/namespace/repository:tag whenever the registry is not the default,
\* even with the default namespace.
C4_ShortTagnameShapes ==
    (pc \in {"called", "reparsed"} /\ out.op = "GetShortTagname") =>
        LET rt == mp.Repository \o <<":">> \o mp.Tag
        IN  /\ (mp.Registry = DefaultRegistry /\ mp.Namespace = DefaultNamespace)
                   => out.val = rt
            /\ (mp.Registry = DefaultRegistry /\ mp.Namespace # DefaultNamespace)
                   => out.val = mp.Namespace \o <<"/">> \o rt
            /\ mp.Registry # DefaultRegistry
                   => out.val = mp.Registry \o <<"/">> \o mp.Namespace
                                \o <<"/">> \o rt

C4_Witness ==
    /\ pc = "called" /\ out.op = "GetShortTagname"
    /\ mp.Registry # DefaultRegistry
    /\ mp.Namespace = DefaultNamespace
    /\ mp.Repository # <<>>

----------------------------------------------------------------------------
(* Vocabulary of the claims about paths *)

\* the location <store-root>/e1/.../en, written out element by element and
\* read lexically; an empty store root is the working directory
UnderRoot(elems) ==
    Clean(StringsJoin(
        <<IF modelsDir.path = <<>> THEN <<".">> ELSE modelsDir.path>> \o elems,
        <<PathSeparator>>))

RootResolves == modelsDir.err = "nil"

Exists(path) == Kind(fs, path) = "dir"

Finished(p, kind) == procs[p].pc = "done" /\ procs[p].op.kind = kind

IsHex(c) ==
    \/ c \in {"0", "1", "2", "3", "4", "5", "6", "7", "8", "9"}
    \/ c \in {"a", "b", "c", "d", "e", "f"}
    \/ c \in {"A", "B", "C", "D", "E", "F"}

\* "sha256", one of ':' and '-', then exactly 64 hexadecimal characters
WellFormed(d) ==
    /\ Len(d) = 71
    /\ <<d[1], d[2], d[3], d[4], d[5], d[6]>> = <<"s","h","a","2","5","6">>
    /\ d[7] = ":" \/ d[7] = "-"
    /\ \A i \in 8..71 : IsHex(d[i])

Malformed(d) == d # <<>> /\ ~WellFormed(d)

\* the digest with a dash for its separator, every other character as it is
Dashed(d) == [i \in 1..Len(d) |-> IF i = 7 THEN "-" ELSE d[i]]

InvalidDigestReturned(p) ==
    procs[p].ret.err = "invalid digest format" /\ procs[p].ret.path = <<>>

C7_BlobPath ==
    \A p \in DOMAIN procs :
        (Finished(p, "GetBlobsPath") /\ procs[p].ret.err = "nil") =>
            IF procs[p].op.arg = <<>>
            THEN procs[p].ret.path = UnderRoot(<<Blobs>>)
            ELSE procs[p].ret.path =
                     UnderRoot(<<Blobs>>) \o <<PathSeparator>>
                     \o Dashed(procs[p].op.arg)

C7_Witness ==
    \E p \in DOMAIN procs :
        /\ Finished(p, "GetBlobsPath") /\ procs[p].ret.err = "nil"
        /\ Len(procs[p].op.arg) = 71
        /\ procs[p].op.arg[7] = ":"
        /\ procs[p].op.arg[8] = "A"
        /\ procs[p].ret.path[Len(procs[p].ret.path) - 64] = "-"

\* C8: ModelPath.GetManifestPath returns
\* <store-root>/manifests/registry/namespace/repository/tag and leaves the
\* filesystem as it was; the package-level GetManifestPath returns
\* <store-root>/manifests and, when it succeeds, that directory and all its
\* parents exist.
C8_ManifestPathSideEffects ==
    \A p \in DOMAIN procs :
        /\ Finished(p, "ModelPath.GetManifestPath") =>
               /\ procs[p].made = {}
               /\ fs = fs0
               /\ RootResolves =>
                      LET m == ParseModelPath(procs[p].op.arg)
                      IN  /\ procs[p].ret.err = "nil"
                          /\ procs[p].ret.path =
                                 UnderRoot(<<Manifests, m.Registry, m.Namespace,
                                             m.Repository, m.Tag>>)
        /\ (Finished(p, "GetManifestPath") /\ procs[p].ret.err = "nil") =>
               /\ procs[p].ret.path = UnderRoot(<<Manifests>>)
               /\ \A q \in Ancestors(procs[p].ret.path) : Exists(q)

C8_Witness ==
    \E p \in DOMAIN procs :
        /\ Finished(p, "ModelPath.GetManifestPath")
        /\ procs[p].ret.err = "nil"
        /\ procs[p].ret.path # <<>>
        /\ ~Exists(UnderRoot(<<Manifests>>))
        /\ ~Exists(ParentOf(procs[p].ret.path))

----------------------------------------------------------------------------
(* Vocabulary of the claims about concurrent callers *)

\* the call op made alone, to completion, on the filesystem f
Alone(f, op) ==
    Only({ IF ~plan.mkdir
           THEN [fs |-> f, ret |-> [path |-> plan.path, err |-> plan.err]]
           ELSE Only({ [fs  |-> r.fs,
                        ret |-> IF r.err = "nil"
                                THEN [path |-> plan.path, err |-> plan.err]
                                ELSE [path |-> <<>>, err |-> "mkdir"]]
                       : r \in {MkdirAll(f, plan.dir)} })
           : plan \in {PlanOf(op)} })

\* the filesystem after the callers order[1], order[2], ... ran one after
\* the other on f
RECURSIVE OneByOne(_, _)
OneByOne(f, order) ==
    IF order = <<>> THEN f
    ELSE OneByOne(Alone(f, procs[Head(order)].op).fs, Tail(order))

Orders ==
    {o \in [DOMAIN procs -> DOMAIN procs] :
        \A i, j \in DOMAIN procs : o[i] = o[j] => i = j}

AllDone == \A p \in DOMAIN procs : procs[p].pc = "done"

\* C9: for callers of GetBlobsPath and GetManifestPath interleaved on one
\* store root, every call returns what it returns alone, the final
\* filesystem is that of any sequential run, a call repeated after it
\* succeeded creates nothing and returns the same path, and the parse,
\* validate and format operations do not touch the filesystem.
C9_InterleavingsAgreeWithSequentialRuns ==
    /\ \A p \in DOMAIN procs :
           procs[p].pc = "done" =>
               /\ procs[p].ret = Alone(fs0, procs[p].op).ret
               /\ procs[p].after # {} =>
                      /\ procs[p].made = {}
                      /\ \A q \in procs[p].after : procs[q].ret = procs[p].ret
               /\ procs[p].op.kind = "GetShortTagname" => procs[p].made = {}
    /\ AllDone => \A o \in Orders : fs = OneByOne(fs0, o)

C9_Witness ==
    /\ AllDone
    /\ fs # fs0
    /\ \A p \in DOMAIN procs : procs[p].ret.err = "nil"
    /\ \E p, q \in DOMAIN procs :
           /\ procs[p].op.kind = "GetBlobsPath"
           /\ procs[q].op.kind = "GetManifestPath"
           /\ procs[p].made # {} /\ procs[q].made # {}
           /\ \E d \in procs[q].made : Len(d) < Len(procs[p].ret.path)
                                       /\ d \notin procs[p].made
                                       /\ d = SubSeq(procs[p].ret.path, 1, Len(d))

----------------------------------------------------------------------------
(* The claim about manifest locations *)

Addresses == {ParseModelPath(n) : n \in Names}

SameLocationFields(a, b) ==
    /\ a.Registry = b.Registry
    /\ a.Namespace = b.Namespace
    /\ a.Repository = b.Repository
    /\ a.Tag = b.Tag

\* path lies below the manifests directory
BelowManifests(path) ==
    LET dir == UnderRoot(<<Manifests>>) \o <<PathSeparator>>
    IN  Len(path) > Len(dir) /\ SubSeq(path, 1, Len(dir)) = dir

\* C10: for valid addresses, the manifest path lies under
\* <store-root>/manifests, and two addresses that differ in registry,
\* namespace, repository or tag have different manifest paths.
C10_OneManifestPerAddress ==
    (pc = "called" /\ out.op = "GetManifestPath" /\ Validate(mp) = "nil") =>
        /\ BelowManifests(out.val)
        /\ \A a \in Addresses :
               (Validate(a) = "nil" /\ ~SameLocationFields(a, mp))
                   => MpGetManifestPath(a).path # out.val

====
